---------------------------- MODULE Spec2Model ----------------------------
(***************************************************************************)
(* A model of the SANE array codec (crate sane_array): data.rs, write.rs   *)
(* and read.rs.  A stream is a sequence of bytes (0..255) with a cursor,   *)
(* as std::io::Cursor<Vec<u8>> in the crate's tests.  An array is a record *)
(*   [data_type, shape, elems, layout]                                     *)
(* whose elems are in logical (row-major) order; layout says how the       *)
(* elements lie in memory ("C": standard layout, "F": column-major).       *)
(*                                                                         *)
(* Numbers.  Integer elements are their values; a float element is its     *)
(* IEEE-754 bit pattern (f32::to_le_bytes is to_bits().to_le_bytes()), so   *)
(* element equality is equality of bits.  The model checker's integers are *)
(* 32 bits wide, so the values drawn for 64-bit types and for the header's *)
(* u64 fields are those below 2^31 in magnitude; their encodings are still *)
(* computed over all 8 bytes.  usize is taken to be 64 bits wide, so the   *)
(* conversions of parse_u32_size and parse_u64_size never fail.            *)
(***************************************************************************)
EXTENDS Integers, Sequences, FiniteSets, TLC

VARIABLES
    file,      \* the bytes of the stream (Cursor<Vec<u8>>::get_ref())
    pos,       \* the cursor's position
    arrays,    \* the arrays handed to the writer so far, in order
    tamper,    \* what was done to the bytes between writing and reading
    call,      \* the last call made: its name and arguments
    result,    \* what the last call returned
    pc         \* where the caller stands: "write", "tamper", "read"

vars == <<file, pos, arrays, tamper, call, result, pc>>

---------------------------------------------------------------------------
(* Bounds of the model *)

\* Largest rank of an array handed to the writer.
MaxRank == 2
\* Largest size of one dimension of an array handed to the writer.
MaxDim == 2

---------------------------------------------------------------------------
(* Sequences of bytes *)

RECURSIVE Concat(_)
Concat(ss) == IF ss = <<>> THEN <<>> ELSE Head(ss) \o Concat(Tail(ss))

Reverse(s) == [i \in 1..Len(s) |-> s[Len(s) + 1 - i]]

RECURSIVE Product(_)
Product(s) == IF s = <<>> THEN 1 ELSE Head(s) * Product(Tail(s))

\* The n low bytes of v, least significant first: v in two's complement
\* when v is negative (% and \div round towards minus infinity).
RECURSIVE int_to_le_bytes(_, _)
int_to_le_bytes(v, n) ==
    IF n = 0 THEN <<>> ELSE <<v % 256>> \o int_to_le_bytes(v \div 256, n - 1)

\* uN::from_le_bytes
RECURSIVE uint_from_le_bytes(_)
uint_from_le_bytes(bytes) ==
    IF bytes = <<>> THEN 0
    ELSE Head(bytes) + 256 * uint_from_le_bytes(Tail(bytes))

\* iN::from_le_bytes: the top byte carries the sign.
RECURSIVE int_from_le_bytes(_)
int_from_le_bytes(bytes) ==
    IF Len(bytes) = 1
    THEN (IF Head(bytes) >= 128 THEN Head(bytes) - 256 ELSE Head(bytes))
    ELSE Head(bytes) + 256 * int_from_le_bytes(Tail(bytes))

---------------------------------------------------------------------------
(* data.rs *)

DataType == {"F32", "I32", "U32", "F64", "I64", "U64", "I8", "U8"}

\* (mutant) the codes of I32 and U32 swapped.
parse_data_type_swapped(code) ==
    CASE code = 0 -> [ok |-> TRUE, val |-> "F32", err |-> -1]
      [] code = 1 -> [ok |-> TRUE, val |-> "U32", err |-> -1]
      [] code = 2 -> [ok |-> TRUE, val |-> "I32", err |-> -1]
      [] code = 3 -> [ok |-> TRUE, val |-> "F64", err |-> -1]
      [] code = 4 -> [ok |-> TRUE, val |-> "I64", err |-> -1]
      [] code = 5 -> [ok |-> TRUE, val |-> "U64", err |-> -1]
      [] code = 6 -> [ok |-> TRUE, val |-> "I8", err |-> -1]
      [] code = 7 -> [ok |-> TRUE, val |-> "U8", err |-> -1]
      [] OTHER -> [ok |-> FALSE, val |-> "", err |-> code]

\* Result<DataType, u8>: Ok(val) or Err(err).
parse_data_type(code) ==
    CASE code = 0 -> [ok |-> TRUE, val |-> "F32", err |-> -1]
      [] code = 1 -> [ok |-> TRUE, val |-> "I32", err |-> -1]
      [] code = 2 -> [ok |-> TRUE, val |-> "U32", err |-> -1]
      [] code = 3 -> [ok |-> TRUE, val |-> "F64", err |-> -1]
      [] code = 4 -> [ok |-> TRUE, val |-> "I64", err |-> -1]
      [] code = 5 -> [ok |-> TRUE, val |-> "U64", err |-> -1]
      [] code = 6 -> [ok |-> TRUE, val |-> "I8", err |-> -1]
      [] code = 7 -> [ok |-> TRUE, val |-> "U8", err |-> -1]
      [] OTHER -> [ok |-> FALSE, val |-> "", err |-> code]

data_type_code(data_type) ==
    CASE data_type = "F32" -> 0
      [] data_type = "I32" -> 1
      [] data_type = "U32" -> 2
      [] data_type = "F64" -> 3
      [] data_type = "I64" -> 4
      [] data_type = "U64" -> 5
      [] data_type = "I8" -> 6
      [] data_type = "U8" -> 7

\* The variant of enum Sane that holds an array of the data type.
SaneVariant(data_type) ==
    CASE data_type = "F32" -> "ArrayF32"
      [] data_type = "I32" -> "ArrayI32"
      [] data_type = "U32" -> "ArrayU32"
      [] data_type = "F64" -> "ArrayF64"
      [] data_type = "I64" -> "ArrayI64"
      [] data_type = "U64" -> "ArrayU64"
      [] data_type = "I8" -> "ArrayI8"
      [] data_type = "U8" -> "ArrayU8"

\* std::mem::size_of::<A>() of the element type A with A::sane_data_type()
\* = data_type.
size_of(data_type) ==
    CASE data_type \in {"I8", "U8"} -> 1
      [] data_type \in {"F32", "I32", "U32"} -> 4
      [] data_type \in {"F64", "I64", "U64"} -> 8

IsSigned(data_type) == data_type \in {"I8", "I32", "I64"}

---------------------------------------------------------------------------
(* The build *)

\* cfg!(endianness = "little") in write_data, read_array and
\* read_array_with_shape.  rustc sets target_endian, never a cfg named
\* endianness, and the crate has no build script that sets one, so the macro
\* expands to false on every host: the per-element branches are the ones
\* that run.  Both branches are modelled below.
cfg_endianness_little == FALSE

\* The byte order of the host, which the zero-copy branches depend on.
target_endian == "little"

---------------------------------------------------------------------------
(* write.rs *)

\* WriteSane::to_le_bytes(elem) for an element of the data type.
to_le_bytes(data_type, elem) == int_to_le_bytes(elem, size_of(data_type))

\* The bytes of one element as they lie in the host's memory.
to_ne_bytes(data_type, elem) ==
    IF target_endian = "little"
    THEN to_le_bytes(data_type, elem)
    ELSE Reverse(to_le_bytes(data_type, elem))

\* The logical (row-major) index of the element at offset m of a
\* column-major buffer of the shape.
RECURSIVE LogicalIndex(_, _, _)
LogicalIndex(m, shape, lin) ==
    IF shape = <<>> THEN lin
    ELSE LogicalIndex(m \div Head(shape), Tail(shape),
                      lin * Head(shape) + (m % Head(shape)))

\* The elements in the order they lie in memory from array.as_ptr().
MemoryElems(array) ==
    IF array.layout = "C" THEN array.elems
    ELSE [m \in 1..Len(array.elems) |->
            array.elems[LogicalIndex(m - 1, array.shape, 0) + 1]]

magic == <<83, 65, 78, 69>>     \* "SANE".as_bytes()

\* (mutant) the dimensions written in logical order, not reversed.
write_header_dims_in_order(array) ==
    LET shape == array.shape
    IN  magic
        \o int_to_le_bytes(Len(shape), 4)
        \o Concat([i \in 1..Len(shape) |-> int_to_le_bytes(shape[i], 8)])
        \o <<data_type_code(array.data_type)>>
        \o int_to_le_bytes(Product(shape) * size_of(array.data_type), 8)

\* The bytes write_header writes for the array.  The conversions to u32 and
\* u64 cannot fail for the shapes of the model, and writing to a
\* Cursor<Vec<u8>> cannot fail.
write_header(array) ==
    LET shape == array.shape
        data_type == array.data_type
        shape_length_bytes == int_to_le_bytes(Len(shape), 4)
        rev == Reverse(shape)
        dim_bytes == Concat([i \in 1..Len(rev) |-> int_to_le_bytes(rev[i], 8)])
        code == data_type_code(data_type)
        byte_length == Product(shape) * size_of(data_type)
        data_length_bytes == int_to_le_bytes(byte_length, 8)
    IN  magic \o shape_length_bytes \o dim_bytes \o <<code>> \o data_length_bytes

\* The zero-copy branch: byte_length bytes of memory from the data pointer.
write_data_raw(array) ==
    LET mem == MemoryElems(array)
    IN  Concat([i \in 1..Len(mem) |-> to_ne_bytes(array.data_type, mem[i])])

\* The per-element branch: array.iter() goes in logical order.
write_data_elems(array) ==
    Concat([i \in 1..Len(array.elems) |->
              to_le_bytes(array.data_type, array.elems[i])])

\* (mutant) the zero-copy branch taken whatever the array's layout.
write_data_always_raw(array) == write_data_raw(array)

write_data(array) ==
    IF cfg_endianness_little THEN write_data_raw(array)
    ELSE write_data_elems(array)

\* The bytes write_sane appends to the file.
write_sane(array) == write_header(array) \o write_data(array)

\* (mutant) the records preceded by their number as a little-endian u32.
write_sane_arrays_counted(as) ==
    int_to_le_bytes(Len(as), 4)
    \o Concat([i \in 1..Len(as) |-> write_header(as[i]) \o write_data(as[i])])

\* The bytes write_sane_arrays appends to the file.
RECURSIVE write_sane_arrays(_)
write_sane_arrays(as) ==
    IF as = <<>> THEN <<>>
    ELSE write_sane(Head(as)) \o write_sane_arrays(Tail(as))

---------------------------------------------------------------------------
(* read.rs *)

\* enum ParseError.  code is the u8 of InvalidDataType, data_type the
\* DataType of WrongDataType, detail the kind of the std::io::Error or of
\* the ndarray::ShapeError carried.
ParseError(kind, code, data_type, detail) ==
    [kind |-> kind, code |-> code, data_type |-> data_type, detail |-> detail]

EOF == ParseError("EOF", -1, "", "")
NotSANE == ParseError("NotSANE", -1, "", "")
InvalidDataType(code) == ParseError("InvalidDataType", code, "", "")
NotEnoughBytes == ParseError("NotEnoughBytes", -1, "", "UnexpectedEof")
ShapeError(detail) == ParseError("ShapeError", -1, "", detail)
WrongDataType(data_type) == ParseError("WrongDataType", -1, data_type, "")
NoError == ParseError("", -1, "", "")

NoHeader == [shape |-> <<>>, data_type |-> "", data_length |-> 0]
NoArray == [data_type |-> "", shape |-> <<>>, elems |-> <<>>, layout |-> ""]

\* Read::read_exact(buf) with buf.len() = n on the stream f at position p.
\* With fewer than n bytes left it fails with ErrorKind::UnexpectedEof,
\* having consumed what was left.
read_exact(f, p, n) ==
    IF p + n <= Len(f)
    THEN [ok |-> TRUE, buf |-> SubSeq(f, p + 1, p + n), pos |-> p + n]
    ELSE [ok |-> FALSE, buf |-> <<>>, pos |-> Len(f)]

parse_u32_size(bytes) == uint_from_le_bytes(bytes)

parse_u64_size(bytes) == uint_from_le_bytes(bytes)

HeaderErr(err, p) == [ok |-> FALSE, header |-> NoHeader, err |-> err, pos |-> p]

\* (mutants) read_header with the comparison of the magic left out
\* (check_magic = FALSE), or with the payload length read before the type
\* tag is parsed (length_first = TRUE).
read_header_variant(f, p, check_magic, length_first) ==
    LET magic_read == read_exact(f, p, 4)
    IN
    IF ~magic_read.ok THEN HeaderErr(EOF, magic_read.pos)
    ELSE IF check_magic /\ magic_read.buf # magic
    THEN HeaderErr(NotSANE, magic_read.pos)
    ELSE
    LET shape_length_read == read_exact(f, magic_read.pos, 4)
    IN
    IF ~shape_length_read.ok THEN HeaderErr(NotEnoughBytes, shape_length_read.pos)
    ELSE
    LET shape_length == parse_u32_size(shape_length_read.buf)
        shape_read == read_exact(f, shape_length_read.pos, shape_length * 8)
    IN
    IF ~shape_read.ok THEN HeaderErr(NotEnoughBytes, shape_read.pos)
    ELSE
    LET shape_bytes == shape_read.buf
        pushed == [dim \in 1..shape_length |->
                     parse_u64_size(SubSeq(shape_bytes, (dim - 1) * 8 + 1, dim * 8))]
        data_type_read == read_exact(f, shape_read.pos, 1)
    IN
    IF ~data_type_read.ok THEN HeaderErr(NotEnoughBytes, data_type_read.pos)
    ELSE
    LET data_type == parse_data_type(data_type_read.buf[1])
        data_length_read == read_exact(f, data_type_read.pos, 8)
    IN
    IF length_first /\ ~data_length_read.ok
    THEN HeaderErr(NotEnoughBytes, data_length_read.pos)
    ELSE IF ~data_type.ok
    THEN HeaderErr(InvalidDataType(data_type.err), data_type_read.pos)
    ELSE IF ~data_length_read.ok
    THEN HeaderErr(NotEnoughBytes, data_length_read.pos)
    ELSE [ok |-> TRUE,
          header |-> [shape |-> Reverse(pushed), data_type |-> data_type.val,
                      data_length |-> parse_u64_size(data_length_read.buf)],
          err |-> NoError,
          pos |-> data_length_read.pos]

read_header_any_magic(f, p) == read_header_variant(f, p, FALSE, FALSE)

read_header_length_first(f, p) == read_header_variant(f, p, TRUE, TRUE)

\* read_header(file): Ok(header) or Err(err), and the position it leaves
\* the stream at.
read_header(f, p) ==
    LET magic_read == read_exact(f, p, 4)
    IN
    IF ~magic_read.ok THEN HeaderErr(EOF, magic_read.pos)
    ELSE IF magic_read.buf # magic THEN HeaderErr(NotSANE, magic_read.pos)
    ELSE
    LET shape_length_read == read_exact(f, magic_read.pos, 4)
    IN
    IF ~shape_length_read.ok THEN HeaderErr(NotEnoughBytes, shape_length_read.pos)
    ELSE
    LET shape_length == parse_u32_size(shape_length_read.buf)
        shape_read == read_exact(f, shape_length_read.pos, shape_length * 8)
    IN
    IF ~shape_read.ok THEN HeaderErr(NotEnoughBytes, shape_read.pos)
    ELSE
    LET shape_bytes == shape_read.buf
        pushed == [dim \in 1..shape_length |->
                     parse_u64_size(SubSeq(shape_bytes, (dim - 1) * 8 + 1, dim * 8))]
        shape == Reverse(pushed)
        data_type_read == read_exact(f, shape_read.pos, 1)
    IN
    IF ~data_type_read.ok THEN HeaderErr(NotEnoughBytes, data_type_read.pos)
    ELSE
    LET data_type == parse_data_type(data_type_read.buf[1])
    IN
    IF ~data_type.ok THEN HeaderErr(InvalidDataType(data_type.err), data_type_read.pos)
    ELSE
    LET data_length_read == read_exact(f, data_type_read.pos, 8)
    IN
    IF ~data_length_read.ok THEN HeaderErr(NotEnoughBytes, data_length_read.pos)
    ELSE [ok |-> TRUE,
          header |-> [shape |-> shape, data_type |-> data_type.val,
                      data_length |-> parse_u64_size(data_length_read.buf)],
          err |-> NoError,
          pos |-> data_length_read.pos]

\* <A>::from_le_bytes of one element's bytes.
elem_from_le_bytes(data_type, elem_bytes) ==
    IF IsSigned(data_type) THEN int_from_le_bytes(elem_bytes)
    ELSE uint_from_le_bytes(elem_bytes)

\* ReadSane::from_le_bytes (macro sane_from_le_bytes): bytes.len() / COUNT
\* elements; bytes left over at the end are dropped.
sane_from_le_bytes(data_type, bytes) ==
    LET COUNT == size_of(data_type)
        elems == Len(bytes) \div COUNT
    IN  [i \in 1..elems |->
           elem_from_le_bytes(data_type, SubSeq(bytes, (i - 1) * COUNT + 1, i * COUNT))]

\* byte_data.align_to::<T>().1 on a buffer aligned for T: the whole elements
\* of the buffer, read in the host's byte order.
align_to_middle(data_type, bytes) ==
    LET COUNT == size_of(data_type)
        elems == Len(bytes) \div COUNT
    IN  [i \in 1..elems |->
           LET chunk == SubSeq(bytes, (i - 1) * COUNT + 1, i * COUNT)
           IN  elem_from_le_bytes(data_type,
                  IF target_endian = "little" THEN chunk ELSE Reverse(chunk))]

\* The flat elements read_array and read_array_with_shape build the view on.
payload_values(data_type, byte_data) ==
    IF cfg_endianness_little THEN align_to_middle(data_type, byte_data)
    ELSE sane_from_le_bytes(data_type, byte_data)

\* The fixed-rank and dynamic-rank index types of ndarray a caller can ask
\* read_sane for, and Dimension::NDIM of each (-1: None, for IxDyn).
Dimension == {"Ix0", "Ix1", "Ix2", "Ix3", "IxDyn"}

NDIM(D) ==
    CASE D = "Ix0" -> 0
      [] D = "Ix1" -> 1
      [] D = "Ix2" -> 2
      [] D = "Ix3" -> 3
      [] D = "IxDyn" -> -1

\* ArrayView::from_shape(dims, &values) followed by to_owned(): a view in
\* standard layout on the first product(dims) values; ErrorKind::OutOfBounds
\* when the slice holds fewer.  A longer slice is accepted.
from_shape(data_type, dims, values) ==
    LET len == Product(dims)
    IN  IF len > Len(values)
        THEN [ok |-> FALSE, val |-> NoArray, err |-> ShapeError("OutOfBounds")]
        ELSE [ok |-> TRUE,
              val |-> [data_type |-> data_type, shape |-> dims,
                       elems |-> SubSeq(values, 1, len), layout |-> "C"],
              err |-> NoError]

\* (mutant) the rank of the view is not compared with D's.
into_dimensionality_unchecked(view, D) ==
    [ok |-> TRUE, val |-> view, err |-> NoError]

\* ArrayBase::into_dimensionality::<D>() of a view of dynamic rank.
into_dimensionality(view, D) ==
    IF NDIM(D) = -1 \/ NDIM(D) = Len(view.shape)
    THEN [ok |-> TRUE, val |-> view, err |-> NoError]
    ELSE [ok |-> FALSE, val |-> NoArray, err |-> ShapeError("IncompatibleShape")]

\* read_array::<T>(dims, byte_data) with T::sane_data_type() = data_type.
read_array(data_type, dims, byte_data) ==
    from_shape(data_type, dims, payload_values(data_type, byte_data))

\* read_array_with_shape::<T, D>(shape, byte_data)
read_array_with_shape(data_type, D, shape, byte_data) ==
    LET array_view == from_shape(data_type, shape, payload_values(data_type, byte_data))
    IN  IF ~array_view.ok THEN array_view
        ELSE into_dimensionality(array_view.val, D)

ReadErr(err, p) == [ok |-> FALSE, val |-> NoArray, err |-> err, pos |-> p]

\* (mutant) the element type compared before the payload is read.
read_sane_type_check_first(f, p, A, D) ==
    LET header == read_header(f, p)
    IN
    IF ~header.ok THEN ReadErr(header.err, header.pos)
    ELSE IF header.header.data_type # A
    THEN ReadErr(WrongDataType(header.header.data_type), header.pos)
    ELSE
    LET sane_data == read_exact(f, header.pos, header.header.data_length)
    IN
    IF ~sane_data.ok THEN ReadErr(NotEnoughBytes, sane_data.pos)
    ELSE
    LET sane == read_array_with_shape(A, D, header.header.shape, sane_data.buf)
    IN  [ok |-> sane.ok, val |-> sane.val, err |-> sane.err, pos |-> sane_data.pos]

\* (mutant) WrongDataType carries the requested type, not the header's.
read_sane_reports_requested_type(f, p, A, D) ==
    LET header == read_header(f, p)
    IN
    IF ~header.ok THEN ReadErr(header.err, header.pos)
    ELSE
    LET sane_data == read_exact(f, header.pos, header.header.data_length)
    IN
    IF ~sane_data.ok THEN ReadErr(NotEnoughBytes, sane_data.pos)
    ELSE IF header.header.data_type # A
    THEN ReadErr(WrongDataType(A), sane_data.pos)
    ELSE
    LET sane == read_array_with_shape(A, D, header.header.shape, sane_data.buf)
    IN  [ok |-> sane.ok, val |-> sane.val, err |-> sane.err, pos |-> sane_data.pos]

\* read_sane::<F, A, D>(file) with A::sane_data_type() = A.
read_sane(f, p, A, D) ==
    LET header == read_header(f, p)
    IN
    IF ~header.ok THEN ReadErr(header.err, header.pos)
    ELSE
    LET sane_data == read_exact(f, header.pos, header.header.data_length)
    IN
    IF ~sane_data.ok THEN ReadErr(NotEnoughBytes, sane_data.pos)
    ELSE IF header.header.data_type # A
    THEN ReadErr(WrongDataType(header.header.data_type), sane_data.pos)
    ELSE
    LET sane == read_array_with_shape(A, D, header.header.shape, sane_data.buf)
    IN  [ok |-> sane.ok, val |-> sane.val, err |-> sane.err, pos |-> sane_data.pos]

\* A value of enum Sane.
Sane(array) == [variant |-> SaneVariant(array.data_type), array |-> array]

\* (mutant) the payload read with Read::read, which fills what the stream
\* has left and leaves the rest of the zeroed buffer as it is.
read_sane_dyn_short_read(f, p) ==
    LET header == read_header(f, p)
    IN
    IF ~header.ok THEN ReadErr(header.err, header.pos)
    ELSE
    LET n == header.header.data_length
        left == SubSeq(f, header.pos + 1, Len(f))
        sane_data == [i \in 1..n |-> IF i <= Len(left) THEN left[i] ELSE 0]
        sane == read_array(header.header.data_type, header.header.shape, sane_data)
    IN  IF sane.ok
        THEN [ok |-> TRUE, val |-> Sane(sane.val), err |-> NoError,
              pos |-> IF header.pos + n <= Len(f) THEN header.pos + n ELSE Len(f)]
        ELSE ReadErr(sane.err, header.pos)

\* (mutant) a decode that fails sets the stream back to its start.
read_sane_dyn_reset_on_error(f, p) ==
    LET header == read_header(f, p)
        sane_data == read_exact(f, header.pos, header.header.data_length)
        sane == read_array(header.header.data_type, header.header.shape, sane_data.buf)
    IN  IF ~header.ok THEN ReadErr(header.err, 0)
        ELSE IF ~sane_data.ok THEN ReadErr(NotEnoughBytes, 0)
        ELSE IF sane.ok
        THEN [ok |-> TRUE, val |-> Sane(sane.val), err |-> NoError,
              pos |-> sane_data.pos]
        ELSE ReadErr(sane.err, 0)

\* read_sane_dyn(file)
read_sane_dyn(f, p) ==
    LET header == read_header(f, p)
    IN
    IF ~header.ok THEN ReadErr(header.err, header.pos)
    ELSE
    LET sane_data == read_exact(f, header.pos, header.header.data_length)
    IN
    IF ~sane_data.ok THEN ReadErr(NotEnoughBytes, sane_data.pos)
    ELSE
    LET dims == header.header.shape
        sane == read_array(header.header.data_type, dims, sane_data.buf)
    IN  IF sane.ok
        THEN [ok |-> TRUE, val |-> Sane(sane.val), err |-> NoError,
              pos |-> sane_data.pos]
        ELSE ReadErr(sane.err, sane_data.pos)

\* The loop of read_sane_arrays, entered with `got` already pushed.  r is
\* the result of this iteration's read_sane (the one element of the set it
\* ranges over), evaluated once.
RECURSIVE read_sane_arrays_loop(_, _, _, _, _)
read_sane_arrays_loop(f, p, A, D, got) ==
    CHOOSE out \in
        {IF r.ok THEN read_sane_arrays_loop(f, r.pos, A, D, Append(got, r.val))
         ELSE IF r.err = EOF
         THEN [ok |-> TRUE, val |-> got, err |-> NoError, pos |-> r.pos]
         ELSE [ok |-> FALSE, val |-> <<>>, err |-> r.err, pos |-> r.pos]
         : r \in {read_sane(f, p, A, D)}} : TRUE

\* (mutant) the loop ends at the first error of any kind and returns what
\* it has decoded so far.
RECURSIVE read_sane_arrays_keeps_decoded_loop(_, _, _, _, _)
read_sane_arrays_keeps_decoded_loop(f, p, A, D, got) ==
    CHOOSE out \in
        {IF r.ok
         THEN read_sane_arrays_keeps_decoded_loop(f, r.pos, A, D, Append(got, r.val))
         ELSE [ok |-> TRUE, val |-> got, err |-> NoError, pos |-> r.pos]
         : r \in {read_sane(f, p, A, D)}} : TRUE

read_sane_arrays_keeps_decoded(f, p, A, D) ==
    read_sane_arrays_keeps_decoded_loop(f, p, A, D, <<>>)

\* read_sane_arrays::<F, A, D>(file)
read_sane_arrays(f, p, A, D) == read_sane_arrays_loop(f, p, A, D, <<>>)

\* The loop of read_sane_arrays_dyn, entered with `got` already pushed.
RECURSIVE read_sane_arrays_dyn_loop(_, _, _)
read_sane_arrays_dyn_loop(f, p, got) ==
    CHOOSE out \in
        {IF r.ok THEN read_sane_arrays_dyn_loop(f, r.pos, Append(got, r.val))
         ELSE IF r.err = EOF
         THEN [ok |-> TRUE, val |-> got, err |-> NoError, pos |-> r.pos]
         ELSE [ok |-> FALSE, val |-> <<>>, err |-> r.err, pos |-> r.pos]
         : r \in {read_sane_dyn(f, p)}} : TRUE

\* (mutant) no loop: at most one record is decoded.
read_sane_arrays_dyn_once(f, p) ==
    LET r == read_sane_dyn(f, p)
    IN  IF r.ok THEN [ok |-> TRUE, val |-> <<r.val>>, err |-> NoError, pos |-> r.pos]
        ELSE IF r.err = EOF
        THEN [ok |-> TRUE, val |-> <<>>, err |-> NoError, pos |-> r.pos]
        ELSE [ok |-> FALSE, val |-> <<>>, err |-> r.err, pos |-> r.pos]

\* (mutant) the end of the stream returned as the error it is inside the
\* loop.
read_sane_arrays_dyn_eof_is_error(f, p) ==
    LET r == read_sane_arrays_dyn_loop(f, p, <<>>)
    IN  IF r.ok THEN [ok |-> FALSE, val |-> <<>>, err |-> EOF, pos |-> r.pos]
        ELSE r

\* read_sane_arrays_dyn(file)
read_sane_arrays_dyn(f, p) == read_sane_arrays_dyn_loop(f, p, <<>>)

---------------------------------------------------------------------------
(* The arrays a caller writes *)

RECURSIVE SeqsUpTo(_, _)
SeqsUpTo(S, n) ==
    IF n = 0 THEN {<<>>}
    ELSE LET shorter == SeqsUpTo(S, n - 1)
         IN  shorter \cup {Append(s, x) : s \in {t \in shorter : Len(t) = n - 1}, x \in S}

Shapes == SeqsUpTo(0..MaxDim, MaxRank)

\* Four values of each element type, with bytes that differ, so that the
\* order of the bytes and of the elements shows.  Floats are bit patterns:
\* 1.0, 2.0, 0.5, 0.0 for f32, four subnormals for f64.
ElemPattern(data_type) ==
    CASE data_type = "I8" -> <<1, -2, 100, -128>>
      [] data_type = "U8" -> <<1, 254, 100, 0>>
      [] data_type = "I32" -> <<1, -2, 258, -16909060>>
      [] data_type = "U32" -> <<1, 258, 16909060, 2147483647>>
      [] data_type = "I64" -> <<1, -2, 258, -16909060>>
      [] data_type = "U64" -> <<1, 258, 16909060, 2147483647>>
      [] data_type = "F32" -> <<1065353216, 1073741824, 1056964608, 0>>
      [] data_type = "F64" -> <<1, 258, 16909060, 2147483647>>

Fill(data_type, n) ==
    [i \in 1..n |-> ElemPattern(data_type)[((i - 1) % 4) + 1]]

\* A column-major array differs from a standard one in memory only when two
\* of its dimensions are larger than 1.
Layouts(shape) ==
    IF Cardinality({i \in 1..Len(shape) : shape[i] > 1}) >= 2
    THEN {"C", "F"} ELSE {"C"}

ArraysOf(types, shapes) ==
    UNION {{[data_type |-> t, shape |-> s, elems |-> Fill(t, Product(s)),
             layout |-> l] : l \in Layouts(s)} : t \in types, s \in shapes}

\* The array of the crate's tests: ndarray::array![[1,2,3], [4,5,6]].
ExampleArray ==
    [data_type |-> "I32", shape |-> <<2, 3>>, elems |-> <<1, 2, 3, 4, 5, 6>>,
     layout |-> "C"]

InputArrays == ArraysOf(DataType, Shapes) \cup {ExampleArray}

\* ndarray's == on arrays: the same shape and the same elements in logical
\* order (of the same element type, by typing).
array_eq(a, b) ==
    a.data_type = b.data_type /\ a.shape = b.shape /\ a.elems = b.elems

---------------------------------------------------------------------------
(* The caller: writes one record to an empty Cursor, may damage the bytes,  *)
(* sets the position to 0 and decodes once.                                 *)

NoCall == [op |-> "", A |-> "", D |-> "", code |-> -1, from |-> 0]
NoTamper == [kind |-> "none", n |-> 0, code |-> -1]
NoResult == [ok |-> TRUE, val |-> NoArray, err |-> NoError]

Init ==
    /\ file = <<>>
    /\ pos = 0
    /\ arrays = <<>>
    /\ tamper = NoTamper
    /\ call = NoCall
    /\ result = NoResult
    /\ pc = "write"

\* write_sane(&mut file, &array)
WriteSane(array) ==
    /\ pc = "write"
    /\ file' = SubSeq(file, 1, pos) \o write_sane(array)
    /\ pos' = Len(file')
    /\ arrays' = Append(arrays, array)
    /\ call' = [NoCall EXCEPT !.op = "write_sane", !.from = pos]
    /\ result' = NoResult
    /\ pc' = "tamper"
    /\ UNCHANGED tamper

\* file.set_position(0), by a caller that goes on to make one decode call
\* (reads = "read"), two (reads = "read2") or any number (reads = "stream").
SetPosition0(reads) ==
    /\ pc \in {"tamper", "rewind"}
    /\ pos' = 0
    /\ pc' = reads
    /\ UNCHANGED <<file, arrays, tamper, call, result>>

\* Where the caller stands after a decode call.
AfterCall ==
    IF pc = "read2" THEN "read"
    ELSE IF pc = "stream" THEN "stream"
    ELSE "done"

ReadSane(A, D) ==
    /\ pc \in {"read", "read2", "stream"}
    /\ LET r == read_sane(file, pos, A, D)
       IN  /\ result' = [ok |-> r.ok, val |-> r.val, err |-> r.err]
           /\ pos' = r.pos
    /\ call' = [NoCall EXCEPT !.op = "read_sane", !.A = A, !.D = D, !.from = pos]
    /\ pc' = AfterCall
    /\ UNCHANGED <<file, arrays, tamper>>

ReadSaneDyn ==
    /\ pc \in {"read", "read2", "stream"}
    /\ LET r == read_sane_dyn(file, pos)
       IN  /\ result' = [ok |-> r.ok, val |-> r.val, err |-> r.err]
           /\ pos' = r.pos
    /\ call' = [NoCall EXCEPT !.op = "read_sane_dyn", !.from = pos]
    /\ pc' = AfterCall
    /\ UNCHANGED <<file, arrays, tamper>>

Next ==
    \/ \E array \in InputArrays : WriteSane(array)
    \/ SetPosition0("read")
    \/ \E A \in DataType, D \in Dimension : ReadSane(A, D)
    \/ ReadSaneDyn

Spec == Init /\ [][Next]_vars

---------------------------------------------------------------------------
(* Claims about one intact record (Spec) *)

\* The caller asked read_sane for the element type and the rank of `array`
\* (IxDyn fits every rank).
TypedMatch(array) ==
    /\ call.op = "read_sane"
    /\ call.A = array.data_type
    /\ NDIM(call.D) \in {-1, Len(array.shape)}

\* C1: round trip.  Reading the bytes write_sane produced for an array, from
\* position 0, gives an array equal to it (same shape, same elements in the
\* same order): read_sane when the requested type and rank match, and
\* read_sane_dyn, which also gives the Sane variant of the element type.
C1_RoundTrip ==
    pc = "done" =>
        /\ TypedMatch(arrays[1]) =>
              result.ok /\ array_eq(result.val, arrays[1])
        /\ call.op = "read_sane_dyn" =>
              /\ result.ok
              /\ result.val.variant = SaneVariant(arrays[1].data_type)
              /\ array_eq(result.val.array, arrays[1])

\* A column-major 2x2 array of negative and positive i64 read back by
\* read_sane_dyn.
C1_Witness ==
    /\ pc = "done"
    /\ call.op = "read_sane_dyn"
    /\ arrays[1].data_type = "I64"
    /\ arrays[1].shape = <<2, 2>>
    /\ arrays[1].layout = "F"
    /\ result.ok
    /\ result.val.variant = "ArrayI64"
    /\ result.val.array.elems = <<1, -2, 258, -16909060>>

\* The bytes of the record of ndarray::array![[1,2,3],[4,5,6]] (i32).
ExampleBytes ==
    <<83, 65, 78, 69,   2, 0, 0, 0,
      3, 0, 0, 0, 0, 0, 0, 0,   2, 0, 0, 0, 0, 0, 0, 0,
      1,   24, 0, 0, 0, 0, 0, 0, 0,
      1, 0, 0, 0,   2, 0, 0, 0,   3, 0, 0, 0,
      4, 0, 0, 0,   5, 0, 0, 0,   6, 0, 0, 0>>

\* C2: wire layout on write.  For an array of shape s (rank r) and element
\* type T the file holds exactly: "SANE"; r as a little-endian u32; the
\* dimensions as little-endian u64, s[r-1] first and s[0] last; the code of
\* T; product(s)*size_of(T) as a little-endian u64; then that many payload
\* bytes, the elements in row-major order, each little-endian: 17 + 8r +
\* product(s)*size_of(T) bytes in all.
C2_WireLayout ==
    arrays # <<>> =>
        LET array == arrays[1]
            s == array.shape
            r == Len(s)
            size == size_of(array.data_type)
            n == Product(s) * size
        IN  /\ Len(file) = 17 + 8 * r + n
            /\ SubSeq(file, 1, 4) = <<83, 65, 78, 69>>
            /\ SubSeq(file, 5, 8) = <<r, 0, 0, 0>>
            /\ \A i \in 1..r :
                  SubSeq(file, 8 * i + 1, 8 * i + 8) = <<s[r + 1 - i], 0, 0, 0, 0, 0, 0, 0>>
            /\ file[8 * r + 9] = data_type_code(array.data_type)
            /\ SubSeq(file, 8 * r + 10, 8 * r + 17) = <<n, 0, 0, 0, 0, 0, 0, 0>>
            /\ \A k \in 1..Product(s) :
                  elem_from_le_bytes(array.data_type,
                      SubSeq(file, 17 + 8 * r + (k - 1) * size + 1,
                                   17 + 8 * r + k * size)) = array.elems[k]
            /\ array = ExampleArray => file = ExampleBytes

\* The record of a 1x2 array, whose dimensions go out as 2 then 1.
C2_Witness ==
    /\ arrays # <<>>
    /\ arrays[1].shape = <<1, 2>>
    /\ arrays[1].data_type = "U32"
    /\ Len(file) = 41
    /\ SubSeq(file, 9, 24) = <<2, 0, 0, 0, 0, 0, 0, 0, 1, 0, 0, 0, 0, 0, 0, 0>>
    /\ SubSeq(file, 34, 41) = <<1, 0, 0, 0, 2, 1, 0, 0>>

\* C6: wrong-type guard.  read_sane::<T> of a well-formed record whose
\* header declares another type H fails with WrongDataType(H), the header's
\* type, and returns no array.
C6_WrongType ==
    (pc = "done" /\ call.op = "read_sane" /\ call.A # arrays[1].data_type) =>
        /\ ~result.ok
        /\ result.err = WrongDataType(arrays[1].data_type)
        /\ result.val = NoArray

\* An i32 record read as f32 gives WrongDataType(I32).
C6_Witness ==
    /\ pc = "done"
    /\ call.op = "read_sane"
    /\ call.A = "F32"
    /\ arrays[1] = ExampleArray
    /\ result.err.kind = "WrongDataType"
    /\ result.err.data_type = "I32"

\* C7: rank mismatch.  read_sane::<T, D> of a well-formed record of type T
\* whose rank differs from the fixed rank of D fails with
\* ParseError::ShapeError; it never returns Ok.
C7_RankMismatch ==
    (/\ pc = "done"
     /\ call.op = "read_sane"
     /\ call.A = arrays[1].data_type
     /\ NDIM(call.D) \notin {-1, Len(arrays[1].shape)}) =>
        /\ ~result.ok
        /\ result.err.kind = "ShapeError"

\* The rank-2 record of the tests read as rank 3.
C7_Witness ==
    /\ pc = "done"
    /\ call.op = "read_sane"
    /\ call.A = "I32"
    /\ call.D = "Ix3"
    /\ arrays[1] = ExampleArray
    /\ result.err = ShapeError("IncompatibleShape")

---------------------------------------------------------------------------
(* The caller of a damaged or crafted record: the bytes the reader gets    *)
(* need not be the bytes a writer wrote.  One record is written, then cut  *)
(* short or given a payload of another length, and decoded once.           *)

\* Largest number of bytes by which the payload of a crafted record is
\* longer or shorter than its shape implies.
MaxDelta == 8

\* The shapes of the records that are damaged: rank 0, an empty dimension,
\* a vector, a matrix.
DamagedShapes == {<<>>, <<0>>, <<2>>, <<1, 2>>}

DamagedArrays == ArraysOf(DataType, DamagedShapes) \cup {ExampleArray}

\* The length of the header of a record of the rank.
HeaderLen(rank) == 17 + 8 * rank

\* The stream reaches the reader cut to its first n bytes.
Truncate(n) ==
    /\ pc = "tamper"
    /\ n < Len(file)
    /\ file' = SubSeq(file, 1, n)
    /\ tamper' = [kind |-> "truncate", n |-> n, code |-> -1]
    /\ pc' = "rewind"
    /\ UNCHANGED <<pos, arrays, call, result>>

\* The record reaches the reader with a payload of n bytes and n as its
\* payload length: the written payload cut short, or followed by zeros.
Resize(n) ==
    /\ pc = "tamper"
    /\ LET array == arrays[Len(arrays)]
           h == HeaderLen(Len(array.shape))
           payload == SubSeq(file, h + 1, Len(file))
       IN  /\ n >= 0
           /\ n # Len(payload)
           /\ n - Len(payload) \in -MaxDelta..MaxDelta
           /\ file' = SubSeq(file, 1, h - 8) \o int_to_le_bytes(n, 8)
                      \o [i \in 1..n |-> IF i <= Len(payload) THEN payload[i] ELSE 0]
    /\ tamper' = [kind |-> "resize", n |-> n, code |-> -1]
    /\ pc' = "rewind"
    /\ UNCHANGED <<pos, arrays, call, result>>

NextDamaged ==
    \/ \E array \in DamagedArrays : WriteSane(array)
    \/ \E n \in 0..Len(file) : Truncate(n)
    \/ \E n \in 0..(Len(file) + MaxDelta) : Resize(n)
    \/ SetPosition0("read")
    \/ \E A \in DataType, D \in Dimension : ReadSane(A, D)
    \/ ReadSaneDyn

SpecDamaged == Init /\ [][NextDamaged]_vars

---------------------------------------------------------------------------
(* Claims about one damaged or crafted record (SpecDamaged) *)

\* C8: truncation is a hard failure.  Decoding a proper prefix, of 4 bytes
\* or more, of a valid record never returns an array: it fails with
\* ParseError::NotEnoughBytes, raised by read_header when the prefix ends
\* inside the header (rank, dims, type tag or payload length) and by the
\* read of the payload when the header is complete.
C8_Truncated ==
    (pc = "done" /\ tamper.kind = "truncate" /\ tamper.n >= 4) =>
        /\ ~result.ok
        /\ result.val = NoArray
        /\ tamper.n < HeaderLen(Len(arrays[1].shape)) => result.err = NotEnoughBytes
        /\ tamper.n >= HeaderLen(Len(arrays[1].shape)) => result.err = NotEnoughBytes

\* The 2x3 i32 record cut to 10 bytes, decoded by read_sane_dyn.
C8_Witness ==
    /\ pc = "done"
    /\ arrays[1] = ExampleArray
    /\ tamper.kind = "truncate"
    /\ tamper.n = 10
    /\ call.op = "read_sane_dyn"
    /\ result.err.kind = "NotEnoughBytes"

\* C10 (as claimed): a decode of a record whose header is well-formed but
\* whose payload length gives a number of elements other than product(shape)
\* (fewer, more, or not a whole number of elements) fails with
\* ParseError::ShapeError and returns no array.
C10_ShapeCount ==
    (/\ pc = "done"
     /\ tamper.kind = "resize"
     /\ (TypedMatch(arrays[1]) \/ call.op = "read_sane_dyn")) =>
        /\ ~result.ok
        /\ result.err.kind = "ShapeError"

---------------------------------------------------------------------------
(* The type tag registry on its own: a caller applies parse_data_type to   *)
(* any u8 and data_type_code to any DataType.                              *)

ParseDataType(code) ==
    /\ call' = [NoCall EXCEPT !.op = "parse_data_type", !.code = code]
    /\ result' = parse_data_type(code)
    /\ UNCHANGED <<file, pos, arrays, tamper, pc>>

DataTypeCode(data_type) ==
    /\ call' = [NoCall EXCEPT !.op = "data_type_code", !.A = data_type]
    /\ result' = [ok |-> TRUE, val |-> data_type_code(data_type), err |-> -1]
    /\ UNCHANGED <<file, pos, arrays, tamper, pc>>

NextTypes ==
    \/ \E code \in 0..255 : ParseDataType(code)
    \/ \E data_type \in DataType : DataTypeCode(data_type)

SpecTypes == Init /\ [][NextTypes]_vars

\* The registry as the format defines it: the type of code c is
\* TypeOfCode[c + 1].
TypeOfCode == <<"F32", "I32", "U32", "F64", "I64", "U64", "I8", "U8">>

\* C3: type-tag bijection.  data_type_code and parse_data_type are mutual
\* inverses over the codes 0:F32 1:I32 2:U32 3:F64 4:I64 5:U64 6:I8 7:U8:
\* parse_data_type(data_type_code(d)) = Ok(d) for every d,
\* data_type_code(parse_data_type(c)) = c for every c in 0..7, and
\* parse_data_type(c) = Err(c) for every c in 8..255.
C3_TagBijection ==
    /\ call.op = "data_type_code" =>
          /\ result.val \in 0..7
          /\ TypeOfCode[result.val + 1] = call.A
          /\ parse_data_type(result.val) = [ok |-> TRUE, val |-> call.A, err |-> -1]
    /\ (call.op = "parse_data_type" /\ call.code \in 0..7) =>
          /\ result.ok
          /\ result.val = TypeOfCode[call.code + 1]
          /\ data_type_code(result.val) = call.code
    /\ (call.op = "parse_data_type" /\ call.code \in 8..255) =>
          /\ ~result.ok
          /\ result.err = call.code

\* parse_data_type applied to a code that is no type's.
C3_Witness ==
    /\ call.op = "parse_data_type"
    /\ call.code = 200
    /\ result = [ok |-> FALSE, val |-> "", err |-> 200]

---------------------------------------------------------------------------
(* The caller of a stream of records: writes up to MaxArrays arrays with   *)
(* write_sane_arrays (in one call or several), may damage the bytes, sets  *)
(* the position to 0 and calls read_sane_arrays or read_sane_arrays_dyn,   *)
(* twice.                                                                  *)

\* Largest number of records in a stream.
MaxArrays == 2

StreamTypes == {"I32", "U8"}
StreamShapes == {<<>>, <<2>>}
StreamDims == {"Ix0", "Ix1", "IxDyn"}
StreamArrays == ArraysOf(StreamTypes, StreamShapes)

\* Type tags that are no type's.
BadCodes == {8, 255}

\* The arguments of one call of write_sane_arrays::<A, D>: arrays of one
\* element type (of any ranks: D may be IxDyn).
ArrayLists(n) ==
    {as \in SeqsUpTo(StreamArrays, n) :
        \A i, j \in 1..Len(as) : as[i].data_type = as[j].data_type}

\* The length of the record of the array.
RecordLen(array) ==
    HeaderLen(Len(array.shape)) + Product(array.shape) * size_of(array.data_type)

\* The length of the records of the arrays.
RECURSIVE RecordsLen(_)
RecordsLen(as) ==
    IF as = <<>> THEN 0 ELSE RecordLen(Head(as)) + RecordsLen(Tail(as))

\* The offset of the j-th record written.
RecordStart(j) == RecordsLen(SubSeq(arrays, 1, j - 1))

\* write_sane_arrays(&mut file, as)
WriteSaneArrays(as) ==
    /\ pc \in {"write", "tamper"}
    /\ Len(arrays) + Len(as) <= MaxArrays
    /\ file' = SubSeq(file, 1, pos) \o write_sane_arrays(as)
    /\ pos' = Len(file')
    /\ arrays' = arrays \o as
    /\ call' = [NoCall EXCEPT !.op = "write_sane_arrays", !.from = pos]
    /\ result' = NoResult
    /\ pc' = "tamper"
    /\ UNCHANGED tamper

\* The stream reaches the reader with k bytes, the start of a magic
\* sequence, after its last record.
Stray(k) ==
    /\ pc = "tamper"
    /\ file' = file \o SubSeq(magic, 1, k)
    /\ tamper' = [kind |-> "stray", n |-> k, code |-> -1]
    /\ pc' = "rewind"
    /\ UNCHANGED <<pos, arrays, call, result>>

\* The j-th record reaches the reader with a wrong first byte.
BadMagic(j) ==
    /\ pc = "tamper"
    /\ j \in 1..Len(arrays)
    /\ file' = [file EXCEPT ![RecordStart(j) + 1] = 88]
    /\ tamper' = [kind |-> "bad_magic", n |-> j, code |-> -1]
    /\ pc' = "rewind"
    /\ UNCHANGED <<pos, arrays, call, result>>

\* The j-th record reaches the reader with the type tag c.
BadTypeCode(j, c) ==
    /\ pc = "tamper"
    /\ j \in 1..Len(arrays)
    /\ file' = [file EXCEPT ![RecordStart(j) + 8 * Len(arrays[j].shape) + 9] = c]
    /\ tamper' = [kind |-> "bad_type_code", n |-> j, code |-> c]
    /\ pc' = "rewind"
    /\ UNCHANGED <<pos, arrays, call, result>>

ReadSaneArrays(A, D) ==
    /\ pc \in {"read", "read2", "stream"}
    /\ LET r == read_sane_arrays(file, pos, A, D)
       IN  /\ result' = [ok |-> r.ok, val |-> r.val, err |-> r.err]
           /\ pos' = r.pos
    /\ call' = [NoCall EXCEPT !.op = "read_sane_arrays", !.A = A, !.D = D,
                              !.from = pos]
    /\ pc' = AfterCall
    /\ UNCHANGED <<file, arrays, tamper>>

ReadSaneArraysDyn ==
    /\ pc \in {"read", "read2", "stream"}
    /\ LET r == read_sane_arrays_dyn(file, pos)
       IN  /\ result' = [ok |-> r.ok, val |-> r.val, err |-> r.err]
           /\ pos' = r.pos
    /\ call' = [NoCall EXCEPT !.op = "read_sane_arrays_dyn", !.from = pos]
    /\ pc' = AfterCall
    /\ UNCHANGED <<file, arrays, tamper>>

NextStream ==
    \/ \E as \in ArrayLists(MaxArrays) : WriteSaneArrays(as)
    \/ \E k \in 1..3 : Stray(k)
    \/ \E n \in 0..Len(file) : Truncate(n)
    \/ \E j \in 1..MaxArrays : BadMagic(j)
    \/ \E j \in 1..MaxArrays, c \in BadCodes : BadTypeCode(j, c)
    \/ SetPosition0("read2")
    \/ \E A \in StreamTypes, D \in StreamDims : ReadSaneArrays(A, D)
    \/ ReadSaneArraysDyn

SpecStream == Init /\ [][NextStream]_vars

\* The call made last is read_sane_arrays or read_sane_arrays_dyn.
DecodeMany == call.op \in {"read_sane_arrays", "read_sane_arrays_dyn"}

\* The type and rank the call asks for are those of the i-th array written
\* (read_sane_arrays_dyn asks for none).
Suits(i) ==
    \/ call.op = "read_sane_arrays_dyn"
    \/ /\ call.A = arrays[i].data_type
       /\ NDIM(call.D) \in {-1, Len(arrays[i].shape)}

\* The i-th value returned is the i-th array written.
Returned(i) ==
    IF call.op = "read_sane_arrays_dyn"
    THEN /\ result.val[i].variant = SaneVariant(arrays[i].data_type)
         /\ array_eq(result.val[i].array, arrays[i])
    ELSE array_eq(result.val[i], arrays[i])

\* C4: streaming termination.  After write_sane_arrays has written A1..An to
\* an empty stream, read_sane_arrays_dyn (and read_sane_arrays when the type
\* and rank asked for are those of every array) from position 0 returns Ok
\* with exactly n arrays equal to A1..An in order, leaving the stream
\* exhausted; a further call on the exhausted stream returns Ok with an
\* empty sequence.
C4_Streaming ==
    (DecodeMany /\ tamper = NoTamper) =>
        /\ (call.from = 0 /\ \A i \in 1..Len(arrays) : Suits(i)) =>
              /\ result.ok
              /\ Len(result.val) = Len(arrays)
              /\ \A i \in 1..Len(arrays) : Returned(i)
              /\ pos = Len(file)
        /\ (pc = "done" /\ call.from = Len(file)) =>
              /\ result.ok
              /\ result.val = <<>>
              /\ pos = Len(file)

\* The second read_sane_arrays_dyn on a stream of two different records,
\* started where the records end.
C4_Witness ==
    /\ pc = "done"
    /\ tamper = NoTamper
    /\ Len(arrays) = 2
    /\ arrays[1].shape # arrays[2].shape
    /\ call.op = "read_sane_arrays_dyn"
    /\ call.from = Len(file)
    /\ call.from = RecordsLen(arrays)
    /\ result = [ok |-> TRUE, val |-> <<>>, err |-> NoError]

\* C5: empty stream versus partial magic.  A decode that starts with no
\* byte left is the clean end of the stream (read_sane_arrays and
\* read_sane_arrays_dyn return Ok), but one that starts with 1, 2 or 3
\* bytes left is a hard failure: read_sane_arrays / read_sane_arrays_dyn on
\* a stream that ends with 1 to 3 stray bytes after its last complete
\* record returns an error, not Ok.
C5_PartialMagic ==
    (DecodeMany /\ call.from = 0 /\ \A i \in 1..Len(arrays) : Suits(i)) =>
        /\ tamper = NoTamper => result.ok
        /\ tamper.kind = "stray" => ~result.ok

\* What the i-th record gives a decode that starts on it: the error and the
\* position it leaves, NoError and the end of the record if it decodes.
RecordFault(i) ==
    LET array == arrays[i]
        start == RecordStart(i)
        end == start + RecordLen(array)
    IN  IF tamper.kind = "bad_magic" /\ tamper.n = i
        THEN [err |-> NotSANE, pos |-> start + 4]
        ELSE IF tamper.kind = "bad_type_code" /\ tamper.n = i
        THEN [err |-> InvalidDataType(tamper.code),
              pos |-> start + 8 * Len(array.shape) + 9]
        ELSE IF tamper.kind = "truncate" /\ Len(file) < end
        THEN [err |-> IF Len(file) < start + 4 THEN EOF ELSE NotEnoughBytes,
              pos |-> Len(file)]
        ELSE IF call.op = "read_sane_arrays" /\ call.A # array.data_type
        THEN [err |-> WrongDataType(array.data_type), pos |-> end]
        ELSE IF call.op = "read_sane_arrays"
                /\ NDIM(call.D) \notin {-1, Len(array.shape)}
        THEN [err |-> ShapeError("IncompatibleShape"), pos |-> end]
        ELSE [err |-> NoError, pos |-> end]

\* The i-th record is the first that does not decode.
FirstFault(i) ==
    /\ RecordFault(i).err # NoError
    /\ \A j \in 1..(i - 1) : RecordFault(j).err = NoError

\* C9: decode_many aborts on any error other than end-of-stream.  When the
\* stream holds k >= 0 decodable records and then one that fails with an
\* error other than EOF (bad magic, invalid type code, truncation, wrong
\* type, wrong rank), read_sane_arrays / read_sane_arrays_dyn from position
\* 0 returns that error, with none of the k decoded arrays, and reads
\* nothing past the point where the failing decode stopped.
C9_AbortOnError ==
    (DecodeMany /\ call.from = 0) =>
        \A i \in 1..Len(arrays) :
            (FirstFault(i) /\ RecordFault(i).err # EOF) =>
                /\ ~result.ok
                /\ result.err = RecordFault(i).err
                /\ result.val = <<>>
                /\ pos = RecordFault(i).pos
                /\ pos <= RecordStart(i) + RecordLen(arrays[i])

\* A stream of two records of the type and rank asked for, the second with
\* the type tag 255: read_sane_arrays decodes the first and returns the
\* error of the second, having read up to the tag.
C9_Witness ==
    /\ call.op = "read_sane_arrays"
    /\ call.from = 0
    /\ Len(arrays) = 2
    /\ Suits(1)
    /\ tamper = [kind |-> "bad_type_code", n |-> 2, code |-> 255]
    /\ result = [ok |-> FALSE, val |-> <<>>, err |-> InvalidDataType(255)]
    /\ pos = RecordLen(arrays[1]) + 8 * Len(arrays[2].shape) + 9


\* C11: encode_many is plain concatenation.  The bytes write_sane_arrays
\* writes for A1..An are the bytes write_sane writes for A1, then for A2,
\* ..., then for An, and nothing else: no count before them, nothing
\* between them, nothing after them; for n = 0 nothing is written.
C11_Concatenation ==
    (pc = "tamper" /\ call.op = "write_sane_arrays") =>
        /\ Len(file) = RecordsLen(arrays)
        /\ \A i \in 1..Len(arrays) :
              SubSeq(file, RecordStart(i) + 1, RecordStart(i) + RecordLen(arrays[i]))
                  = write_sane(arrays[i])
        /\ arrays = <<>> => file = <<>>

\* Two records of different shapes written by write_sane_arrays.
C11_Witness ==
    /\ pc = "tamper"
    /\ call.op = "write_sane_arrays"
    /\ Len(arrays) = 2
    /\ arrays[1].shape = <<2>>
    /\ arrays[2].shape = <<>>
    /\ file = write_sane(arrays[1]) \o write_sane(arrays[2])

---------------------------------------------------------------------------
(* The two branches of write_data side by side: a caller writes the payload *)
(* of an array with the per-element branch and then, after it, with the     *)
(* zero-copy branch.                                                        *)

\* The else branch of write_data: array.iter() and to_le_bytes.
WriteDataElems(array) ==
    /\ pc = "write"
    /\ file' = SubSeq(file, 1, pos) \o write_data_elems(array)
    /\ pos' = Len(file')
    /\ arrays' = <<array>>
    /\ call' = [NoCall EXCEPT !.op = "write_data_elems", !.from = pos]
    /\ pc' = "write2"
    /\ UNCHANGED <<tamper, result>>

\* The then branch of write_data: from_raw_parts(array.as_ptr(), byte_length).
WriteDataRaw ==
    /\ pc = "write2"
    /\ file' = SubSeq(file, 1, pos) \o write_data_raw(arrays[1])
    /\ pos' = Len(file')
    /\ call' = [NoCall EXCEPT !.op = "write_data_raw", !.from = pos]
    /\ pc' = "done"
    /\ UNCHANGED <<arrays, tamper, result>>

NextPayload ==
    \/ \E array \in InputArrays : WriteDataElems(array)
    \/ WriteDataRaw

SpecPayload == Init /\ [][NextPayload]_vars

\* C12 (as claimed): the payload encoder paths agree.  For every array
\* write_sane accepts, of any element type, shape and memory layout, the
\* zero-copy branch and the per-element branch of write_data write the same
\* bytes: the elements in logical row-major order, each little-endian.
C12_PathsAgree ==
    (pc = "done" /\ call.op = "write_data_raw") =>
        /\ SubSeq(file, call.from + 1, Len(file)) = SubSeq(file, 1, call.from)
        /\ \A k \in 1..Len(arrays[1].elems) :
              LET size == size_of(arrays[1].data_type)
              IN  elem_from_le_bytes(arrays[1].data_type,
                      SubSeq(file, call.from + (k - 1) * size + 1,
                                   call.from + k * size)) = arrays[1].elems[k]

---------------------------------------------------------------------------
(* A crafted record: the caller writes one record; its magic, its type tag *)
(* or both are then overwritten and the stream may be cut short, before    *)
(* the position is set to 0 and the record is decoded once.                *)

CraftedTypes == {"I32", "U8"}
CraftedShapes == {<<>>, <<2>>}
CraftedArrays == ArraysOf(CraftedTypes, CraftedShapes)

\* The types a typed decode of a crafted record asks for.
RequestedTypes == {"I32", "U8", "I8"}

\* The ranks a typed decode of a crafted record asks for.
RequestedDims == {"Ix0", "Ix1", "IxDyn"}

\* Bytes that are not those of the magic.
NotMagicBytes == {0, 88}

\* Type tags put in place of the written one: that of I8 and two that are
\* no type's.
CraftedCodes == {6, 8, 255}

\* The k-th byte of the magic reaches the reader as b.
CraftMagic(k, b) ==
    /\ pc = "tamper"
    /\ SubSeq(file, 1, 4) = magic
    /\ file' = [file EXCEPT ![k] = b]
    /\ tamper' = [kind |-> "craft_magic", n |-> k, code |-> b]
    /\ UNCHANGED <<pos, arrays, call, result, pc>>

\* The type tag reaches the reader as c.
CraftTypeCode(c) ==
    /\ pc = "tamper"
    /\ LET at == 8 * Len(arrays[1].shape) + 9
       IN  /\ file[at] = data_type_code(arrays[1].data_type)
           /\ file' = [file EXCEPT ![at] = c]
    /\ tamper' = [kind |-> "craft_type_code", n |-> 0, code |-> c]
    /\ UNCHANGED <<pos, arrays, call, result, pc>>

NextCrafted ==
    \/ \E array \in CraftedArrays : WriteSane(array)
    \/ \E k \in 1..4, b \in NotMagicBytes : CraftMagic(k, b)
    \/ \E c \in CraftedCodes : CraftTypeCode(c)
    \/ \E n \in 0..Len(file) : Truncate(n)
    \/ SetPosition0("read")
    \/ \E A \in RequestedTypes, D \in RequestedDims : ReadSane(A, D)
    \/ ReadSaneDyn

SpecCrafted == Init /\ [][NextCrafted]_vars

\* C13: bad magic.  Whenever at least 4 bytes are available and the first 4
\* are not "SANE", a decode (read_sane or read_sane_dyn) fails with
\* ParseError::NotSANE, whatever follows them (a truncated header or
\* payload, an invalid type tag, a type other than the one asked for), and
\* has read those 4 bytes and no more.
C13_BadMagic ==
    (pc = "done" /\ Len(file) >= 4 /\ SubSeq(file, 1, 4) # magic) =>
        /\ ~result.ok
        /\ result.err = NotSANE
        /\ result.val = NoArray
        /\ pos = 4

\* A record with "SAN\0" for magic and the type tag 255, cut inside its
\* payload, decoded by read_sane.
C13_Witness ==
    /\ pc = "done"
    /\ call.op = "read_sane"
    /\ arrays[1].shape = <<2>>
    /\ Len(file) = HeaderLen(1) + 1
    /\ SubSeq(file, 1, 4) = <<83, 65, 78, 0>>
    /\ file[17] = 255
    /\ result.err = NotSANE
    /\ pos = 4

\* C14: invalid type tag in a header.  When the magic, the rank and the
\* dimensions are well-formed and the type tag is a byte c in 8..255, a
\* decode (read_sane or read_sane_dyn) fails with
\* ParseError::InvalidDataType(c) and returns no array, whether or not the
\* payload length and the payload that follow the tag are there.
C14_InvalidTag ==
    LET at == 8 * Len(arrays[1].shape) + 9
    IN  (/\ pc = "done"
         /\ Len(file) >= at
         /\ SubSeq(file, 1, 4) = magic
         /\ file[at] \in 8..255) =>
            /\ ~result.ok
            /\ result.err.kind = "InvalidDataType"
            /\ result.err.code = file[at]
            /\ result.val = NoArray

\* A record of rank 1 with the type tag 255, cut right after the tag,
\* decoded by read_sane_dyn.
C14_Witness ==
    /\ pc = "done"
    /\ call.op = "read_sane_dyn"
    /\ arrays[1].shape = <<2>>
    /\ Len(file) = 17
    /\ SubSeq(file, 1, 4) = magic
    /\ file[17] = 255
    /\ result.err = InvalidDataType(255)
    /\ pos = 17

---------------------------------------------------------------------------
(* Claims about the order of the steps of read_sane (SpecDamaged) *)

\* C15 (as claimed): validation order of the typed decode.  The element
\* type is checked right after the header is parsed and before the payload
\* is read: for a record whose header declares a type other than the one
\* asked for, read_sane fails with ParseError::WrongDataType(header type)
\* even when fewer payload bytes are left than the header declares, and
\* does not report a truncation.
C15_TypeCheckFirst ==
    (/\ pc = "done"
     /\ call.op = "read_sane"
     /\ Len(file) >= HeaderLen(Len(arrays[1].shape))
     /\ call.A # arrays[1].data_type) =>
        /\ ~result.ok
        /\ result.err = WrongDataType(arrays[1].data_type)

---------------------------------------------------------------------------
(* A stream of records decoded one record at a time: the caller writes up  *)
(* to MaxArrays arrays, the bytes may be damaged, the position is set to 0 *)
(* and read_sane or read_sane_dyn is called any number of times.           *)

NextCursor ==
    \/ \E as \in ArrayLists(MaxArrays) : WriteSaneArrays(as)
    \/ \E k \in 1..3 : Stray(k)
    \/ \E n \in 0..Len(file) : Truncate(n)
    \/ \E j \in 1..MaxArrays : BadMagic(j)
    \/ \E j \in 1..MaxArrays, c \in BadCodes : BadTypeCode(j, c)
    \/ SetPosition0("stream")
    \/ \E A \in StreamTypes, D \in StreamDims : ReadSane(A, D)
    \/ ReadSaneDyn

SpecCursor == Init /\ [][NextCursor]_vars

\* The rank in the header of the record at position p.
RankAt(p) == uint_from_le_bytes(SubSeq(file, p + 5, p + 8))

\* The payload length in the header of the record at position p.
PayloadLengthAt(p) ==
    uint_from_le_bytes(SubSeq(file, p + 8 * RankAt(p) + 10, p + 8 * RankAt(p) + 17))

\* The array of the result of read_sane or of read_sane_dyn.
ResultArray ==
    IF call.op = "read_sane_dyn" THEN result.val.array ELSE result.val

\* C16: cursor discipline.  Over any sequence of decode calls on one stream
\* the position never decreases; a decode that succeeds on a record of rank
\* r and payload length n advances it by exactly 17 + 8r + n, to the start
\* of the next record; a decode that starts with nothing left is the clean
\* end of the stream and does not move it.
C16_CursorDiscipline ==
    [][pc = "stream" =>
          /\ call'.from = pos
          /\ pos' >= pos
          /\ pos' <= Len(file)
          /\ result'.ok =>
                /\ pos' = pos + 17 + 8 * RankAt(pos) + PayloadLengthAt(pos)
                /\ Len(ResultArray'.shape) = RankAt(pos)
                /\ \E i \in 1..Len(arrays) :
                      /\ pos = RecordStart(i)
                      /\ pos' = RecordStart(i + 1)
          /\ pos = Len(file) =>
                /\ ~result'.ok
                /\ result'.err = EOF
                /\ pos' = pos]_vars

\* The second of two records decoded by read_sane_dyn, after the first:
\* the position goes from the start of the second record to the end of the
\* stream.
C16_Witness ==
    /\ pc = "stream"
    /\ Len(arrays) = 2
    /\ arrays[2].shape = <<2>>
    /\ call.op = "read_sane_dyn"
    /\ call.from = RecordLen(arrays[1])
    /\ result.ok
    /\ pos = call.from + RecordLen(arrays[2])
    /\ pos = Len(file)

\* read_sane has just failed with WrongDataType or ShapeError.
FailedValidation ==
    /\ pc = "stream"
    /\ call.op = "read_sane"
    /\ ~result.ok
    /\ result.err.kind \in {"WrongDataType", "ShapeError"}

\* C18: stream position after a validation failure.  When read_sane fails
\* with WrongDataType or ShapeError on a record whose header and payload
\* are there, the whole record has been consumed: the position is the
\* start of the next record, and the decode call that follows reads the
\* next record (or finds the end of the stream if there is none).
C18_ConsumedOnFailure ==
    [][FailedValidation =>
          \E i \in 1..Len(arrays) :
              /\ call.from = RecordStart(i)
              /\ pos = RecordStart(i) + RecordLen(arrays[i])
              /\ call'.from = pos
              /\ (i = Len(arrays) /\ tamper = NoTamper) =>
                    ~result'.ok /\ result'.err = EOF
              /\ (i < Len(arrays) /\ tamper = NoTamper /\ Suits(i + 1)') =>
                    /\ result'.ok
                    /\ array_eq(ResultArray', arrays[i + 1])
                    /\ pos' = pos + RecordLen(arrays[i + 1])]_vars

\* The first of two records failed read_sane::<u8, _> with WrongDataType,
\* and the second was then decoded by read_sane::<u8, Ix1>.
C18_Witness ==
    /\ pc = "stream"
    /\ tamper = NoTamper
    /\ Len(arrays) = 2
    /\ arrays[1].data_type = "I32"
    /\ arrays[2].data_type = "U8"
    /\ arrays[2].shape = <<2>>
    /\ call = [NoCall EXCEPT !.op = "read_sane", !.A = "U8", !.D = "Ix1",
                             !.from = RecordLen(arrays[1])]
    /\ result.ok
    /\ array_eq(result.val, arrays[2])

---------------------------------------------------------------------------
(* Claims about the loop of read_sane_arrays / read_sane_arrays_dyn        *)
(* (SpecStream)                                                            *)

\* C17: decode_many terminates on every finite stream.  Each iteration of
\* read_sane_arrays / read_sane_arrays_dyn either returns (Ok at the end
\* of the stream, Err on any other error) or consumes a whole record of at
\* least 17 bytes: the call returns, within the stream, having decoded at
\* most floor(stream length / 17) records.
C17_Terminates ==
    (DecodeMany /\ pc \in {"read", "done"}) =>
        /\ pos >= call.from
        /\ pos <= Len(file)
        /\ result.ok \/ result.err \notin {EOF, NoError}
        /\ result.ok =>
              /\ 17 * Len(result.val) <= pos - call.from
              /\ Len(result.val) <= Len(file) \div 17

\* Two scalar u8 records of 18 bytes each and a stray byte: 37 bytes, and
\* read_sane_arrays_dyn returns after floor(37 / 17) = 2 records.
C17_Witness ==
    /\ DecodeMany
    /\ call.op = "read_sane_arrays_dyn"
    /\ call.from = 0
    /\ Len(file) = 37
    /\ result.ok
    /\ Len(result.val) = 2
    /\ pos = 37
=============================================================================
